---- MODULE Spec2Model ----
(***************************************************************************)
(* Wash-Connect-Analysis: the bulk scraper (src/bulk_scraper.py).          *)
(*                                                                         *)
(* The state is the data directory (the failure store failed_codes.json    *)
(* and one location artifact <code>/<code>.json per code), the locals of   *)
(* run_bulk_scraper and its position, and the most recent call of          *)
(* calculate_batch_parameters.  Location codes are numbered 1..NCodes (one *)
(* prefix, fixed padding).  A pass keeps its clock and the wait after each *)
(* batch, a polling cycle the status artifacts it saved.  The command line *)
(* (main, on code strings) and the directory of one location with its      *)
(* parsed table (parse_and_cleanup_location_data, src/parser.py) have a    *)
(* variable and a specification each, and so has one call of              *)
(* calculate_status (src/parser.py).                                       *)
(*                                                                         *)
(* Specifications:                                                         *)
(*   SpecPlan  calls of calculate_batch_parameters on bounded arguments    *)
(*   Spec      runs of run_bulk_scraper over a persistent data directory   *)
(*   LiveSpec  one run, with weak fairness of the steps of the polling loop *)
(*   SpecCli   main from argv to asyncio.run, for the three input methods  *)
(*   SpecParse saves of status artifacts and calls of                      *)
(*             parse_and_cleanup_location_data for one location            *)
(*   SpecStatus calculate_status on bounded machines and timestamps        *)
(***************************************************************************)
EXTENDS Integers, Sequences, FiniteSets, TLC

(* ------------------------------ bounds --------------------------------- *)

\* Number of distinct location codes.
NCodes == 6
\* Non-nominal events in one behaviour: request outcomes other than a saved
\* 200 response, storage failures, out-of-band runs of scraper.py.
MaxFaults == 2
\* Runs of run_bulk_scraper in one behaviour.
MaxRuns == 2
\* The same two budgets under LiveSpec.
LiveFaults == 1
LiveRuns == 1
\* scraper.py is run for the codes 1..MaxScraperCode.
MaxScraperCode == 1
\* A --max-concurrent value below the minimum batch size.
LowConcurrent == 3
\* Arguments of calculate_batch_parameters under SpecPlan.
MaxTotal == 12
MaxInterval == 4
MaxMinBatch == 3
MaxMaxBatch == 4
\* Characters of a code given on the command line or in a line of the file.
MaxCodeLen == 2
\* Status artifacts saved for one location, and calls of
\* parse_and_cleanup_location_data for it, in one behaviour.
MaxStamps == 2
MaxParses == 3
\* time_remaining of a machine, in minutes.
MaxRemaining == 2

(* ------------------------- program constants --------------------------- *)

\* min_batch_size: int = 5
MinBatchSize == 5
\* --max-concurrent default
DefaultMaxConcurrent == 50
\* --interval default (minutes)
DefaultInterval == 15
\* interval_seconds = interval_minutes * 60
SecondsPerMinute == 60
\* make_request: timeout: int = 30, the total time of one request.
RequestTimeout == 30
\* The clock in units of 1/TicksPerSecond second, the resolution of the
\* request_time string (four fractional digits).
TicksPerSecond == 10000
\* The two documented scenarios of calculate_batch_parameters: arguments,
\* batch size, number of batches, delay in seconds.
ScenarioA == [total |-> 100, interval |-> 900, lo |-> 5, hi |-> 50,
              size |-> 5, batches |-> 20, delay |-> 45]

ScenarioB == [total |-> 7, interval |-> 900, lo |-> 5, hi |-> 50,
              size |-> 5, batches |-> 2, delay |-> 450]

Codes == 1..NCodes

(* --------------------------- pure helpers ------------------------------ *)

Max(a, b) == IF a >= b THEN a ELSE b

Min(a, b) == IF a <= b THEN a ELSE b

SeqToSet(s) == {s[k] : k \in DOMAIN s}

\* Rounding with ties away from zero.
RoundHalfUp(a, b) == (2 * a + b) \div (2 * b)

\* Python round(a / b) for a >= 0, b >= 1: nearest integer, ties to even.
Round(a, b) ==
    LET q == a \div b
        r == a % b
    IN  IF 2 * r < b THEN q
        ELSE IF 2 * r > b THEN q + 1
        ELSE IF q % 2 = 0 THEN q ELSE q + 1

\* a // b
FloorDiv(a, b) == a \div b

\* math.ceil(a / b) for a >= 0, b >= 1.
Ceil(a, b) == (a + b - 1) \div b

\* max(min_batch_size, min(ideal_batch_size, max_batch_size))
Clamp(ideal, lo, hi) == Max(lo, Min(ideal, hi))

\* A float as an exact fraction num / den.
Fraction(n, d) == [num |-> n, den |-> d]

Zero == Fraction(0, 1)

\* calculate_batch_parameters: (batch_size, batch_interval).
calculate_batch_parameters(total, interval, lo, hi) ==
    IF total = 0
    THEN <<0, Zero>>
    ELSE LET requests_per_second == <<total, interval>>
             ideal_batch_size ==
                 Max(1, Round(requests_per_second[1], requests_per_second[2]))
             batch_size == Clamp(ideal_batch_size, lo, hi)
             num_batches == Ceil(total, batch_size)
             batch_interval ==
                 IF num_batches > 1 THEN Fraction(interval, num_batches) ELSE Zero
         IN  <<batch_size, batch_interval>>

(* ------------------------------- state --------------------------------- *)

VARIABLES
    failed_file,            \* data_dir/failed_codes.json: [ok, codes]
    location_file,          \* data_dir/<code>/<code>.json, per code
    pc,                     \* position of run_bulk_scraper ("idle": no run)
    location_codes,         \* the input list of the run
    max_concurrent,         \* --max-concurrent
    failed_codes,           \* the in-memory failure set
    existing_locations,     \* keys of the resolved map, in dict order
    codes_needing_location, \* the work-set of the resolution pass
    new_locations,          \* keys resolved by the pass, in dict order
    location_batch_size,
    total_location_batches,
    status_batch_size,
    total_status_batches,
    location_items,         \* the work-set of a polling cycle
    i,                      \* loop index of the current pass (0-based)
    inflight,               \* codes of the requests awaited by gather()
    call,                   \* last call of calculate_batch_parameters
    pass_log,               \* history: <<[batch, requests, outcomes]>> of this pass
    requested,              \* history: location requests of this run
    notfound,               \* history: codes answered 404 in this run
    flushed,                \* history: outcome of save_failed_codes
    startup,                \* history: what the run found at startup
    prev,                   \* history: the previous run's pass
    exit_status,            \* how the last run ended
    status_batch_interval,  \* planned delay between two status batches
    now,                    \* time since the start of the polling cycle
    batch_start,            \* `now` when the current status batch started
    saved,                  \* history: status artifacts saved in this cycle
    cooldown,               \* history: how the cycle that has just ended ended
    store_writes,           \* history: calls of save_failed_codes in this run
    location_batch_interval, \* planned delay between two location batches
    pause,                  \* history: the wait after the batch just processed
    initial_wait,           \* history: the wait before the first polling cycle
    cli,                    \* one invocation of main: argv and how far it got
    parse,                  \* one location directory and the parsed table
    machine,                \* one call of calculate_status: arguments, result
    runs_left,
    faults_left

disk == <<failed_file, location_file>>

locals == <<location_codes, max_concurrent, failed_codes, existing_locations,
            codes_needing_location, new_locations, location_batch_size,
            total_location_batches, status_batch_size, total_status_batches,
            location_items, i, inflight>>

history == <<pass_log, requested, notfound, flushed, startup, prev, exit_status>>

polling == <<status_batch_interval, now, batch_start, saved, cooldown>>

\* The state of the command line, of the parser and of calculate_status.
aside == <<cli, parse, machine>>

vars == <<disk, pc, locals, call, history, polling, store_writes,
          location_batch_interval, pause, initial_wait, aside, runs_left,
          faults_left>>

\* A readable failure store holding `codes`; the absent file reads as empty.
Store(codes) == [ok |-> TRUE, codes |-> codes]

\* A failure store that json.load cannot read.
CorruptStore == [ok |-> FALSE, codes |-> {}]

NoCall == [total |-> 0, interval |-> 0, lo |-> 0, hi |-> 0, made |-> FALSE,
           ret |-> <<0, Zero>>]

NoStartup == [load_ok |-> TRUE, store |-> Store({}), all_cached |-> FALSE,
              unusable |-> {}]

NoPrev == [notfound |-> {}, flushed |-> "none", at |-> "idle", stopped |-> FALSE,
           cancelled |-> 0, resolved |-> 0, malformed |-> {}, torn |-> {}]

NoCooldown == [made |-> FALSE, duration |-> 0, slept |-> 0, warned |-> FALSE]

NoPause == [made |-> FALSE, elapsed |-> 0, slept |-> 0]

NoWait == [made |-> FALSE, resolved |-> FALSE, phase1_duration |-> 0, slept |-> 0]

\* main has not been invoked.
NoCli == [method |-> "none", args |-> <<>>, readable |-> TRUE, stage |-> "none",
          location_codes |-> <<>>, exit_code |-> 0]

\* calculate_status has not been called.
NoMachine == [status |-> "none",
              time_remaining |-> [given |-> FALSE, minutes |-> 0],
              start_time |-> [kind |-> "absent", seconds |-> 0],
              request_time |-> [kind |-> "absent", seconds |-> 0],
              result |-> "none"]

\* No location directory is under observation.
NoLast == [made |-> FALSE, before |-> {}, appended |-> {}, deleted |-> {},
           returned |-> FALSE, repeat |-> FALSE]

NoParse == [uln |-> <<>>, location |-> "none", files |-> <<>>, table |-> <<>>,
            taken |-> 0, calls |-> 0, last |-> NoLast]

interval_seconds == DefaultInterval * SecondsPerMinute

Running == pc # "idle"

LocalsInit ==
    /\ location_codes = <<>>
    /\ max_concurrent = 0
    /\ failed_codes = {}
    /\ existing_locations = <<>>
    /\ codes_needing_location = <<>>
    /\ new_locations = <<>>
    /\ location_batch_size = 0
    /\ total_location_batches = 0
    /\ status_batch_size = 0
    /\ total_status_batches = 0
    /\ location_items = <<>>
    /\ i = 0
    /\ inflight = <<>>

\* The process is gone: its locals and the history of the run with it.
LocalsReset ==
    /\ location_codes' = <<>>
    /\ max_concurrent' = 0
    /\ failed_codes' = {}
    /\ existing_locations' = <<>>
    /\ codes_needing_location' = <<>>
    /\ new_locations' = <<>>
    /\ location_batch_size' = 0
    /\ total_location_batches' = 0
    /\ status_batch_size' = 0
    /\ total_status_batches' = 0
    /\ location_items' = <<>>
    /\ i' = 0
    /\ inflight' = <<>>
    /\ call' = NoCall
    /\ pass_log' = <<>>
    /\ requested' = <<>>
    /\ notfound' = {}
    /\ flushed' = "none"
    /\ startup' = NoStartup
    /\ status_batch_interval' = Zero
    /\ now' = 0
    /\ batch_start' = 0
    /\ saved' = {}
    /\ cooldown' = NoCooldown
    /\ store_writes' = 0
    /\ location_batch_interval' = Zero
    /\ pause' = NoPause
    /\ initial_wait' = NoWait

\* A fresh data directory, no run yet.
RunInit ==
    /\ failed_file = Store({})
    /\ location_file = [c \in Codes |-> "none"]
    /\ pc = "idle"
    /\ LocalsInit
    /\ pass_log = <<>>
    /\ requested = <<>>
    /\ notfound = {}
    /\ flushed = "none"
    /\ startup = NoStartup
    /\ prev = NoPrev
    /\ status_batch_interval = Zero
    /\ now = 0
    /\ batch_start = 0
    /\ saved = {}
    /\ cooldown = NoCooldown
    /\ store_writes = 0
    /\ location_batch_interval = Zero
    /\ pause = NoPause
    /\ initial_wait = NoWait
    /\ exit_status = "none"

\* No run, no budget for one.
Quiet ==
    /\ RunInit
    /\ call = NoCall
    /\ runs_left = 0
    /\ faults_left = 0

Init ==
    /\ RunInit
    /\ call = NoCall
    /\ cli = NoCli
    /\ parse = NoParse
    /\ machine = NoMachine
    /\ runs_left = MaxRuns
    /\ faults_left = MaxFaults

LiveInit ==
    /\ RunInit
    /\ call = NoCall
    /\ cli = NoCli
    /\ parse = NoParse
    /\ machine = NoMachine
    /\ runs_left = LiveRuns
    /\ faults_left = LiveFaults

(* ------------------- calculate_batch_parameters, called ---------------- *)

TotalValues == (0..MaxTotal) \cup {ScenarioA.total, ScenarioB.total}

IntervalValues == (1..MaxInterval) \cup {ScenarioA.interval}

MinBatchValues == (1..MaxMinBatch) \cup {MinBatchSize}

MaxBatchValues == (0..MaxMaxBatch) \cup {DefaultMaxConcurrent}

\* The call and what it returned.
Called(total, interval, lo, hi) ==
    [total |-> total, interval |-> interval, lo |-> lo, hi |-> hi,
     made |-> TRUE, ret |-> calculate_batch_parameters(total, interval, lo, hi)]

PlanInit ==
    /\ RunInit
    /\ cli = NoCli
    /\ parse = NoParse
    /\ machine = NoMachine
    /\ \E total \in TotalValues, interval \in IntervalValues,
          lo \in MinBatchValues, hi \in MaxBatchValues :
           call = [total |-> total, interval |-> interval, lo |-> lo, hi |-> hi,
                   made |-> FALSE, ret |-> <<0, Zero>>]
    /\ runs_left = 0
    /\ faults_left = 0

PlanCall ==
    /\ ~call.made
    /\ call' = Called(call.total, call.interval, call.lo, call.hi)
    /\ UNCHANGED <<polling, store_writes, location_batch_interval, pause, disk, pc, locals, history, runs_left, faults_left>>
    /\ UNCHANGED <<initial_wait, aside>>

PlanNext == PlanCall

SpecPlan == PlanInit /\ [][PlanNext]_vars

(* ----------------------- run_bulk_scraper: helpers --------------------- *)

\* generate_location_codes(start, end): the codes a..b in order.
Range(a, b) == [k \in 1..(b - a + 1) |-> a + k - 1]

\* The input lists of a run: a range (--range), or a range followed by its
\* first code again (--codes and --file keep what they are given), the
\* repeat falling into the batch of the first or into a later batch.  The
\* ranges are one code and all codes.
InputLists ==
    {Range(1, n) : n \in {1, NCodes}}
        \cup {Range(1, n) \o <<1>> : n \in {1, NCodes - 1}}

MaxConcurrentValues == {LowConcurrent, DefaultMaxConcurrent}

\* seq[i : i + size - 1]
SliceShort(seq, start, size) ==
    SubSeq(seq, start + 1, Min(start + size, Len(seq)) - 1)

\* Python seq[i : i + size], i 0-based.
Slice(seq, start, size) == SubSeq(seq, start + 1, Min(start + size, Len(seq)))

\* The keys of a dict filled from `seq` in order: first occurrences.
RECURSIVE DictKeys(_)
DictKeys(seq) ==
    IF seq = <<>>
    THEN <<>>
    ELSE LET front == DictKeys(SubSeq(seq, 1, Len(seq) - 1))
             last == seq[Len(seq)]
         IN  IF last \in SeqToSet(front) THEN front ELSE Append(front, last)

\* dict.update: the keys of `keys` keep their place, new ones are appended.
DictUpdate(keys, more) == DictKeys(keys \o more)

\* load_failed_codes: any exception reads as the empty set.
load_failed_codes(file, read_ok) ==
    IF file.ok /\ read_ok THEN file.codes ELSE {}

\* active_codes = [code for code in location_codes if code not in failed_codes]
ActiveCodes(codes, failed) == SelectSeq(codes, LAMBDA c : c \notin failed)

\* Every code with an artifact file taken as resolved.
get_existing_locations_any(files, codes) ==
    DictKeys(SelectSeq(codes, LAMBDA c : files[c] # "none"))

\* get_existing_locations: the codes whose artifact loads and holds a ULN.
get_existing_locations(files, codes) ==
    DictKeys(SelectSeq(codes, LAMBDA c : files[c] = "uln"))

\* codes_needing_location
CodesNeedingLocation(files, codes, failed) ==
    SelectSeq(ActiveCodes(codes, failed),
              LAMBDA c : c \notin SeqToSet(get_existing_locations(files, codes)))

\* One task per code of the batch.
LocationTasksUnfiltered(batch, failed, files) == batch

\* scrape_location_batch, the tasks it creates: a code of the failure set or
\* with an artifact file gets none.
LocationTasks(batch, failed, files) ==
    SelectSeq(batch, LAMBDA c : c \notin failed /\ files[c] = "none")

\* Outcomes of one location request, as scrape_location_batch tells them
\* apart: "ok" a 200 payload with a ULN, saved; "notfound" a 404; "transient"
\* a timeout, another status or an exception; "nouln" a 200 payload without
\* location.uln; "savefail" save_json failed and left no file; "partial"
\* save_json failed after it had opened the file; "malformed" a 200 payload
\* whose location is not a mapping (the TypeError leaves the coroutine).
FaultKinds == {"notfound", "transient", "nouln", "savefail", "partial", "malformed"}

\* Every request without a payload counted as not found.
NewFailedAnyError(tasks, outcomes) ==
    {tasks[k] : k \in {j \in DOMAIN tasks : outcomes[j] \in {"notfound", "transient"}}}

\* The codes scrape_location_batch adds to the failure set.
NewFailed(tasks, outcomes) ==
    {tasks[k] : k \in {j \in DOMAIN tasks : outcomes[j] = "notfound"}}

\* Only the codes of this batch.
FailedOnlyNew(failed, new_failed) == new_failed

\* return location_to_uln, failed_codes | new_failed_codes
FailedAfterBatch(failed, new_failed) == failed \cup new_failed

\* History: the codes of this gather() whose 200 payload has a location or
\* a ULN of the wrong type.
Malformed(tasks, outcomes) ==
    {c \in Codes : \E k \in DOMAIN tasks : tasks[k] = c /\ outcomes[k] = "malformed"}

\* History: the branch of the results loop an outcome takes.  A timeout, a
\* payload without ULN and a failed save all leave the loop without a trace
\* in the state.
Branch(outcomes) ==
    [k \in DOMAIN outcomes |->
        IF outcomes[k] \in {"transient", "nouln", "savefail"}
        THEN "skipped" ELSE outcomes[k]]

\* History: the codes of this gather() the service answered with a 404.
Answered404(tasks, outcomes) ==
    {c \in Codes : \E k \in DOMAIN tasks : tasks[k] = c /\ outcomes[k] = "notfound"}

\* The results loop of scrape_location_batch from result k on.
RECURSIVE LocationResults(_, _, _, _)
LocationResults(tasks, outcomes, k, acc) ==
    IF k > Len(tasks) \/ acc.crashed
    THEN acc
    ELSE LET code == tasks[k]
             o == outcomes[k]
             next ==
                 CASE o = "ok" ->
                          [acc EXCEPT !.files[code] = "uln",
                                      !.located = DictUpdate(@, <<code>>)]
                   [] o = "partial" -> [acc EXCEPT !.files[code] = "partial"]
                   [] o = "malformed" -> [acc EXCEPT !.crashed = TRUE]
                   [] OTHER -> acc
         IN  LocationResults(tasks, outcomes, k + 1, next)

\* The outcomes of the requests of one gather(): at most `budget` of them
\* are not "ok".
Outcomes(n, budget) ==
    UNION {
        { [k \in 1..n |-> IF k \in F THEN kinds[k] ELSE "ok"] :
              kinds \in [F -> FaultKinds] } :
        F \in {G \in SUBSET (1..n) : Cardinality(G) <= budget} }

FaultCount(outcomes) ==
    Cardinality({k \in DOMAIN outcomes : outcomes[k] # "ok"})

\* Outcomes of one status request, as scrape_machine_status_batch tells
\* them apart: "ok" a 200 payload, saved; "failed" an exception, a timeout
\* or a status other than 200; "savefail" a 200 payload save_json could not
\* write.
StatusFaultKinds == {"failed", "savefail"}

StatusOutcomes(n, budget) ==
    UNION {
        { [k \in 1..n |-> IF k \in F THEN kinds[k] ELSE "ok"] :
              kinds \in [F -> StatusFaultKinds] } :
        F \in {G \in SUBSET (1..n) : Cardinality(G) <= budget} }

\* A results loop that ends at the first failed request.
CollectedUntilFailure(outcomes) ==
    {k \in DOMAIN outcomes : \A j \in 1..(k - 1) : outcomes[j] # "failed"}

\* gather(*tasks, return_exceptions=True) and the results loop with its
\* `continue`s: every result is looked at.
Collected(outcomes) == DOMAIN outcomes

\* A timestamp taken anew for every artifact.
RequestTimePerArtifact(returned, k) == returned + k

\* request_time: taken once, when gather() has returned, before the loop.
RequestTime(returned, k) == returned

\* A status request without a payload puts its code into the failure set.
FailedAfterStatusAdds(failed, batch_dict, outcomes) ==
    failed \cup {batch_dict[k] : k \in {j \in DOMAIN outcomes : outcomes[j] = "failed"}}

\* scrape_machine_status_batch has no failure set: a request without a
\* payload (a 404 among them) is logged and skipped, and the call returns
\* the count only.
FailedAfterStatus(failed, batch_dict, outcomes) == failed

\* Every payload counted, written or not.
SuccessCountPayloads(outcomes) ==
    Cardinality({k \in DOMAIN outcomes : outcomes[k] \in {"ok", "savefail"}})

\* success_count: one for every payload save_json has written.
SuccessCount(outcomes) ==
    Cardinality({k \in DOMAIN outcomes : outcomes[k] = "ok"})

\* Parsing left for later.
CodesToParseNone(batch_dict, outcomes) == {}

\* codes_to_parse: the codes whose payload save_json has written; the loop
\* after the results loop calls parse_and_cleanup_location_data for each.
CodesToParse(batch_dict, outcomes) ==
    {batch_dict[k] : k \in {j \in DOMAIN outcomes : outcomes[j] = "ok"}}

\* The status artifacts <uln>-<request_time>.json one call of
\* scrape_machine_status_batch saves; `parsed`: the call has handed the
\* code to parse_and_cleanup_location_data before it returned.
StatusSaved(batch_dict, outcomes, returned, batch_num) ==
    {[code |-> batch_dict[k], stamp |-> RequestTime(returned, k), batch |-> batch_num,
      parsed |-> batch_dict[k] \in CodesToParse(batch_dict, outcomes)] :
         k \in {j \in Collected(outcomes) : outcomes[j] = "ok"}}

\* How long one call of scrape_machine_status_batch takes, in ticks: the
\* gather() (no request outlasts its timeout) and the saving and parsing
\* after it, which nothing bounds.
FastBatch == [gather |-> TicksPerSecond, rest |-> 0]

SlowBatch == [gather |-> RequestTimeout * TicksPerSecond,
              rest |-> interval_seconds * TicksPerSecond]

BatchTimings == {FastBatch, SlowBatch}

\* A float number of seconds in ticks.
Ticks(f) == (f.num * TicksPerSecond) \div f.den

\* A wait after every batch, the last one too.
BatchSleepAlways(batch_num, total_batches, batch_interval, elapsed) ==
    Max(0, Ticks(batch_interval) - elapsed)

\* sleep_time = max(0, batch_interval - elapsed), except after the last
\* batch
BatchSleep(batch_num, total_batches, batch_interval, elapsed) ==
    IF batch_num < total_batches THEN Max(0, Ticks(batch_interval) - elapsed) ELSE 0

\* No cooldown at all.
CooldownNone(interval, cycle_duration) ==
    [slept |-> 0, warned |-> cycle_duration >= interval]

\* A cooldown that waits for the next multiple of the interval.
CooldownCatchUp(interval, cycle_duration) ==
    [slept |-> interval - (cycle_duration % interval), warned |-> cycle_duration > interval]

\* remaining_cycle_time = interval_seconds - cycle_duration: slept if
\* positive, a warning otherwise.
CycleCooldown(interval, cycle_duration) ==
    LET remaining_cycle_time == interval - cycle_duration
    IN  IF remaining_cycle_time > 0
        THEN [slept |-> remaining_cycle_time, warned |-> FALSE]
        ELSE [slept |-> 0, warned |-> TRUE]

\* A wait up to the interval whether a resolution pass ran or not.
InitialWaitAlways(resolved, phase1_duration, interval) ==
    IF phase1_duration < interval THEN interval - phase1_duration ELSE 0

\* if codes_needing_location and phase1_duration < interval_seconds:
\* sleep(interval_seconds - phase1_duration).  phase1_duration is the time
\* since start_time, taken before the resolution phase.
InitialWait(resolved, phase1_duration, interval) ==
    IF resolved /\ phase1_duration < interval THEN interval - phase1_duration ELSE 0

\* The path of the failure store among the paths of the location artifacts
\* (the codes).
StorePath == 0

\* The run ends: back to no process.
\* `signal`: the stop signal ended it; `malformed`: the codes whose payload
\* the results loop could not read; `torn`: the paths whose write the end of
\* the process cut short.
EndRun(status, signal, malformed, torn) ==
    /\ pc' = "idle"
    /\ LocalsReset
    /\ prev' = [notfound |-> IF flushed = "none" THEN {} ELSE notfound,
                flushed |-> flushed,
                at |-> pc,
                stopped |-> signal,
                cancelled |-> Len(inflight),
                resolved |-> Len(existing_locations),
                malformed |-> malformed,
                torn |-> torn]
    /\ exit_status' = status

\* A loop that leaves out its last batch.
AfterBatchSkipsLast(start, size, work, loop, done) ==
    IF start + 2 * size < Len(work) THEN loop ELSE done

\* A loop that ends after its first batch.
AfterBatchStops(start, size, work, loop, done) == done

\* Where the loop of a pass goes after the batch at `start`:
\* range(0, len(work), size) has a next index or is exhausted.
AfterBatch(start, size, work, loop, done) ==
    IF start + size < Len(work) THEN loop ELSE done

(* ----------------------- run_bulk_scraper: actions --------------------- *)

\* Startup: the failure store and the cached artifacts are loaded.
StartRun(codes, mc, read_ok) ==
    /\ pc = "idle"
    /\ runs_left > 0
    /\ ~read_ok => (faults_left > 0 /\ failed_file.ok)
    /\ runs_left' = runs_left - 1
    /\ faults_left' = IF read_ok THEN faults_left ELSE faults_left - 1
    /\ location_codes' = codes
    /\ max_concurrent' = mc
    /\ failed_codes' = load_failed_codes(failed_file, read_ok)
    /\ existing_locations' = get_existing_locations(location_file, codes)
    /\ codes_needing_location' =
           CodesNeedingLocation(location_file, codes,
                                load_failed_codes(failed_file, read_ok))
    /\ startup' = [load_ok |-> failed_file.ok /\ read_ok,
                   store |-> failed_file,
                   all_cached |-> \A c \in SeqToSet(codes) : location_file[c] # "none",
                   unusable |-> {c \in SeqToSet(codes) :
                                     location_file[c] \in {"nouln", "partial"}}]
    /\ pc' = "started"
    /\ exit_status' = "none"
    /\ prev' = [NoPrev EXCEPT !.notfound = prev.notfound, !.flushed = prev.flushed]
    /\ UNCHANGED <<polling, store_writes, location_batch_interval, pause, disk, new_locations, location_batch_size, total_location_batches,
                   status_batch_size, total_status_batches, location_items, i,
                   inflight, call, pass_log, requested, notfound, flushed>>
    /\ UNCHANGED <<initial_wait, aside>>

\* The resolution phase entered unconditionally.
NeedsResolutionAlways == TRUE

\* if codes_needing_location:
NeedsResolution == codes_needing_location # <<>>

Phase1Begin ==
    /\ pc = "started"
    /\ NeedsResolution
    /\ LET c == Called(Len(codes_needing_location), interval_seconds,
                       MinBatchSize, max_concurrent)
       IN  /\ call' = c
           /\ location_batch_size' = c.ret[1]
           /\ location_batch_interval' = c.ret[2]
           /\ total_location_batches' =
                  IF c.ret[1] > 0 THEN Ceil(Len(codes_needing_location), c.ret[1]) ELSE 0
    /\ new_locations' = <<>>
    /\ i' = 0
    /\ pass_log' = <<>>
    /\ pc' = "phase1"
    /\ UNCHANGED <<polling, store_writes, pause, disk, location_codes, max_concurrent, failed_codes,
                   existing_locations, codes_needing_location, status_batch_size,
                   total_status_batches, location_items, inflight, requested,
                   notfound, flushed, startup, prev, exit_status, runs_left,
                   faults_left>>
    /\ UNCHANGED <<initial_wait, aside>>

Phase1Skip ==
    /\ pc = "started"
    /\ ~NeedsResolution
    /\ pc' = "phase2_check"
    /\ UNCHANGED <<polling, store_writes, location_batch_interval, pause, disk, locals, call, history, runs_left, faults_left>>
    /\ UNCHANGED <<initial_wait, aside>>

\* One iteration of the location loop up to gather(): the batch is sliced
\* and its requests are issued.  A batch without tasks returns at once.
IssueLocationBatch ==
    /\ pc = "phase1"
    /\ LET batch == Slice(codes_needing_location, i, location_batch_size)
           tasks == LocationTasks(batch, failed_codes, location_file)
       IN  /\ pass_log' = Append(pass_log, [batch |-> batch, requests |-> tasks,
                                            outcomes |-> <<>>])
           /\ requested' = requested \o tasks
           /\ inflight' = tasks
           /\ batch_start' = now
           /\ IF tasks = <<>>
              THEN LET slept == BatchSleep((i \div location_batch_size) + 1,
                                           total_location_batches,
                                           location_batch_interval, 0)
                   IN  /\ pause' = [made |-> TRUE, elapsed |-> 0, slept |-> slept]
                       /\ now' = now + slept
                       /\ i' = i + location_batch_size
                       /\ pc' = AfterBatch(i, location_batch_size,
                                           codes_needing_location, "phase1", "phase1_end")
              ELSE /\ pause' = NoPause
                   /\ now' = now
                   /\ i' = i
                   /\ pc' = "location_inflight"
    /\ UNCHANGED <<status_batch_interval, saved, cooldown, store_writes,
                   location_batch_interval, disk, location_codes, max_concurrent, failed_codes,
                   existing_locations, codes_needing_location, new_locations,
                   location_batch_size, total_location_batches, status_batch_size,
                   total_status_batches, location_items, call, notfound, flushed,
                   startup, prev, exit_status, runs_left, faults_left>>
    /\ UNCHANGED <<initial_wait, aside>>

\* gather() returns and the results are processed in task order.
CompleteLocationBatch ==
    /\ pc = "location_inflight"
    /\ \E outcomes \in Outcomes(Len(inflight), faults_left), t \in BatchTimings :
         LET res == LocationResults(inflight, outcomes, 1,
                        [files |-> location_file, located |-> <<>>, crashed |-> FALSE])
             new_failed_codes == NewFailed(inflight, outcomes)
             cost == FaultCount(outcomes) + IF t = SlowBatch THEN 1 ELSE 0
             elapsed == (now + t.gather + t.rest) - batch_start
             slept == BatchSleep((i \div location_batch_size) + 1,
                                 total_location_batches, location_batch_interval,
                                 elapsed)
         IN  /\ cost <= faults_left
             /\ faults_left' = faults_left - cost
             /\ location_file' = res.files
             /\ IF res.crashed
                THEN /\ EndRun("fatal", FALSE, Malformed(inflight, outcomes), {})
                ELSE /\ failed_codes' = FailedAfterBatch(failed_codes, new_failed_codes)
                     /\ pass_log' = [pass_log EXCEPT
                                         ![Len(pass_log)].outcomes = Branch(outcomes)]
                     /\ notfound' = notfound \cup Answered404(inflight, outcomes)
                     /\ new_locations' = DictUpdate(new_locations, res.located)
                     /\ inflight' = <<>>
                     /\ i' = i + location_batch_size
                     /\ pc' = AfterBatch(i, location_batch_size,
                                         codes_needing_location, "phase1", "phase1_end")
                     /\ pause' = [made |-> TRUE, elapsed |-> elapsed, slept |-> slept]
                     /\ now' = batch_start + elapsed + slept
                     /\ UNCHANGED <<status_batch_interval, batch_start, saved, cooldown,
                                    store_writes, location_batch_interval,
                                    initial_wait, location_codes, max_concurrent,
                                    existing_locations, codes_needing_location,
                                    location_batch_size, total_location_batches,
                                    status_batch_size, total_status_batches,
                                    location_items, call, requested,
                                    flushed, startup, prev, exit_status>>
    /\ UNCHANGED <<failed_file, runs_left>>
    /\ UNCHANGED aside

\* A save_failed_codes that lets the exception of a failed write through.
FlushRaises(outcome) == outcome = "ok"

\* save_failed_codes returns whatever the write did: the exception of a
\* failed write is caught and logged.
FlushReturns(outcome) == TRUE

\* The resolved map left as it was loaded.
ResolvedAsLoaded(existing, new) == existing

\* existing_locations.update(new_locations)
ResolvedAfterPass(existing, new) == DictUpdate(existing, new)

\* After the loop: save_failed_codes, then existing_locations.update.
\* The write succeeds ("ok"), fails before it opened the file ("failed") or
\* fails after it truncated the file ("corrupt").
FlushFailed(outcome) ==
    /\ pc = "phase1_end"
    /\ outcome # "ok" => faults_left > 0
    /\ faults_left' = IF outcome = "ok" THEN faults_left ELSE faults_left - 1
    /\ failed_file' = CASE outcome = "ok" -> Store(failed_codes)
                        [] outcome = "failed" -> failed_file
                        [] outcome = "corrupt" -> CorruptStore
    /\ IF FlushReturns(outcome)
       THEN /\ flushed' = outcome
            /\ store_writes' = store_writes + 1
            /\ existing_locations' = ResolvedAfterPass(existing_locations, new_locations)
            /\ pc' = "phase2_check"
            /\ pause' = NoPause
            /\ UNCHANGED <<polling, location_batch_interval, initial_wait,
                           location_codes, max_concurrent, failed_codes,
                           codes_needing_location, new_locations,
                           location_batch_size, total_location_batches,
                           status_batch_size, total_status_batches, location_items,
                           i, inflight, call, pass_log, requested, notfound, startup,
                           prev, exit_status>>
       ELSE EndRun("fatal", FALSE, {}, {})
    /\ UNCHANGED <<location_file, runs_left>>
    /\ UNCHANGED aside

\* The return taken whatever the map holds.
HasLocationsNever == FALSE

\* if not existing_locations: return
HasLocations == existing_locations # <<>>

ReturnNoLocations ==
    /\ pc = "phase2_check"
    /\ ~HasLocations
    /\ EndRun("returned", FALSE, {}, {})
    /\ UNCHANGED <<disk, runs_left, faults_left>>
    /\ UNCHANGED aside

Phase2Begin ==
    /\ pc = "phase2_check"
    /\ HasLocations
    /\ LET c == Called(Len(existing_locations), interval_seconds,
                       MinBatchSize, max_concurrent)
       IN  /\ call' = c
           /\ status_batch_size' = c.ret[1]
           /\ status_batch_interval' = c.ret[2]
           /\ total_status_batches' =
                  IF c.ret[1] > 0 THEN Ceil(Len(existing_locations), c.ret[1]) ELSE 0
    /\ location_items' = existing_locations
    /\ initial_wait' =
           [made |-> TRUE, resolved |-> codes_needing_location # <<>>,
            phase1_duration |-> now,
            slept |-> InitialWait(codes_needing_location # <<>>, now,
                                  interval_seconds * TicksPerSecond)]
    /\ i' = 0
    /\ pass_log' = <<>>
    /\ now' = 0
    /\ batch_start' = 0
    /\ saved' = {}
    /\ pc' = "polling"
    /\ UNCHANGED <<cooldown, store_writes, location_batch_interval, pause, disk,
                   location_codes, max_concurrent, failed_codes,
                   existing_locations, codes_needing_location, new_locations,
                   location_batch_size, total_location_batches, inflight, requested,
                   notfound, flushed, startup, prev, exit_status, runs_left,
                   faults_left>>
    /\ UNCHANGED aside

\* One iteration of the status loop up to gather(): one request per item.
IssueStatusBatch ==
    /\ pc = "polling"
    /\ LET batch_dict == Slice(location_items, i, status_batch_size)
       IN  /\ pass_log' = Append(pass_log, [batch |-> batch_dict,
                                            requests |-> batch_dict,
                                            outcomes |-> <<>>,
                                            success |-> 0,
                                            parsed |-> {}])
           /\ inflight' = batch_dict
    /\ batch_start' = now
    /\ cooldown' = NoCooldown
    /\ pause' = NoPause
    /\ initial_wait' = NoWait
    /\ pc' = "status_inflight"
    /\ UNCHANGED <<status_batch_interval, now, saved, store_writes,
                   location_batch_interval, disk, location_codes, max_concurrent, failed_codes,
                   existing_locations, codes_needing_location, new_locations,
                   location_batch_size, total_location_batches, status_batch_size,
                   total_status_batches, location_items, i, call, requested,
                   notfound, flushed, startup, prev, exit_status, runs_left,
                   faults_left>>
    /\ UNCHANGED aside

\* gather() returns, the payloads are stamped, saved and parsed, and the
\* loop sleeps up to the start of the next batch or ends the cycle.
CompleteStatusBatch ==
    /\ pc = "status_inflight"
    /\ \E outcomes \in StatusOutcomes(Len(inflight), faults_left), t \in BatchTimings :
         LET cost == FaultCount(outcomes) + IF t = SlowBatch THEN 1 ELSE 0
             batch_num == (i \div status_batch_size) + 1
             elapsed == (now + t.gather + t.rest) - batch_start
         IN  /\ cost <= faults_left
             /\ faults_left' = faults_left - cost
             /\ saved' = saved \cup StatusSaved(inflight, outcomes, now + t.gather,
                                                batch_num)
             /\ pass_log' = [pass_log EXCEPT
                                 ![Len(pass_log)].outcomes = outcomes,
                                 ![Len(pass_log)].success = SuccessCount(outcomes),
                                 ![Len(pass_log)].parsed =
                                     CodesToParse(inflight, outcomes)]
             /\ now' = batch_start + elapsed
                          + BatchSleep(batch_num, total_status_batches,
                                       status_batch_interval, elapsed)
             /\ pause' = [made |-> TRUE, elapsed |-> elapsed,
                          slept |-> BatchSleep(batch_num, total_status_batches,
                                               status_batch_interval, elapsed)]
             /\ failed_codes' = FailedAfterStatus(failed_codes, inflight, outcomes)
    /\ inflight' = <<>>
    /\ i' = i + status_batch_size
    /\ pc' = AfterBatch(i, status_batch_size, location_items, "polling", "cycle_end")
    /\ UNCHANGED <<status_batch_interval, batch_start, cooldown, store_writes,
                   location_batch_interval, disk,
                   location_codes, max_concurrent,
                   existing_locations, codes_needing_location, new_locations,
                   location_batch_size, total_location_batches, status_batch_size,
                   total_status_batches, location_items, call, requested, notfound,
                   flushed, startup, prev, exit_status, runs_left>>
    /\ UNCHANGED <<initial_wait, aside>>

\* The cycle is over: the cooldown, then while True starts the next cycle
\* over the same location_items.
NextCycle ==
    /\ pc = "cycle_end"
    /\ LET cycle_duration == now
           c == CycleCooldown(interval_seconds * TicksPerSecond, cycle_duration)
       IN  cooldown' = [made |-> TRUE, duration |-> cycle_duration,
                        slept |-> c.slept, warned |-> c.warned]
    /\ now' = 0
    /\ batch_start' = 0
    /\ saved' = {}
    /\ i' = 0
    /\ pass_log' = <<>>
    /\ pause' = NoPause
    /\ pc' = "polling"
    /\ UNCHANGED <<status_batch_interval, store_writes, location_batch_interval, disk,
                   location_codes, max_concurrent, failed_codes,
                   existing_locations, codes_needing_location, new_locations,
                   location_batch_size, total_location_batches, status_batch_size,
                   total_status_batches, location_items, inflight, call, requested,
                   notfound, flushed, startup, prev, exit_status, runs_left,
                   faults_left>>
    /\ UNCHANGED <<initial_wait, aside>>

\* asyncio.run turns the stop signal (Ctrl+C) into the cancellation of the
\* main task: the coroutine gets CancelledError at the await it is in.
StopSignal == "CancelledError"

\* try: while True ... except KeyboardInterrupt: the exception the polling
\* loop ends on without raising (except Exception logs and raises again).
HandledInLoop(exc) == exc = "KeyboardInterrupt"

\* The positions inside that try block.
InTryBlock == pc \in {"polling", "status_inflight", "cycle_end"}

\* The stop signal ends the run wherever it is: the requests in flight are
\* cancelled; outside the handler the exception leaves run_bulk_scraper.
Stop ==
    /\ Running
    /\ IF InTryBlock /\ HandledInLoop(StopSignal)
       THEN EndRun("returned", TRUE, {}, {})
       ELSE EndRun("interrupted", TRUE, {}, {})
    /\ UNCHANGED <<disk, runs_left, faults_left>>
    /\ UNCHANGED aside

\* open(path, "w") truncates the file and json.dump writes it piece by
\* piece: a process that ends in between (SIGKILL, power loss) leaves the
\* path with an incomplete file.  Here in save_json, at the k-th result of
\* the batch, the results before it saved.
KillInSave(k) ==
    /\ pc = "location_inflight"
    /\ faults_left > 0
    /\ k \in DOMAIN inflight
    /\ faults_left' = faults_left - 1
    /\ location_file' =
           [c \in Codes |->
               IF c = inflight[k] THEN "partial"
               ELSE IF \E j \in 1..(k - 1) : inflight[j] = c THEN "uln"
               ELSE location_file[c]]
    /\ EndRun("killed", FALSE, {}, {inflight[k]})
    /\ UNCHANGED <<failed_file, runs_left>>
    /\ UNCHANGED aside

\* The same in save_failed_codes.
KillInFlush ==
    /\ pc = "phase1_end"
    /\ faults_left > 0
    /\ faults_left' = faults_left - 1
    /\ failed_file' = CorruptStore
    /\ EndRun("killed", FALSE, {}, {StorePath})
    /\ UNCHANGED <<location_file, runs_left>>
    /\ UNCHANGED aside

ScraperCodes == 1..MaxScraperCode

\* src/scraper.py run for one code between two runs: without a readable
\* artifact it fetches the location and saves the payload before it looks
\* for the ULN.
ScraperMain(code, written) ==
    /\ pc = "idle"
    /\ runs_left > 0
    /\ faults_left > 0
    /\ code \in ScraperCodes
    /\ location_file[code] \in {"none", "partial"}
    /\ location_file' = [location_file EXCEPT ![code] = written]
    /\ faults_left' = faults_left - 1
    /\ UNCHANGED <<polling, store_writes, location_batch_interval, pause, failed_file, pc, locals, call, history, runs_left>>
    /\ UNCHANGED <<initial_wait, aside>>

Step ==
    \/ Phase1Begin
    \/ Phase1Skip
    \/ IssueLocationBatch
    \/ CompleteLocationBatch
    \/ \E outcome \in {"ok", "failed", "corrupt"} : FlushFailed(outcome)
    \/ ReturnNoLocations
    \/ Phase2Begin
    \/ IssueStatusBatch
    \/ CompleteStatusBatch
    \/ NextCycle

Next ==
    \/ \E codes \in InputLists, mc \in MaxConcurrentValues, read_ok \in BOOLEAN :
           StartRun(codes, mc, read_ok)
    \/ Step
    \/ Stop
    \/ \E k \in 1..NCodes : KillInSave(k)
    \/ KillInFlush
    \/ \E code \in Codes, written \in {"uln", "nouln", "partial"} :
           ScraperMain(code, written)

Spec == Init /\ [][Next]_vars

\* The steps of the polling loop.
PollStep == IssueStatusBatch \/ CompleteStatusBatch \/ NextCycle

\* The event loop keeps running the polling loop: every status request ends
\* (it has a timeout) and every sleep is finite.
LiveSpec == LiveInit /\ [][Next]_vars /\ WF_vars(PollStep)

(* -------------------------------- main --------------------------------- *)

\* A string is a sequence of characters.  The characters of the inputs: two
\* letters (one of them lower case), two digits, and the comment mark, which
\* is neither.
Alphabet == {"W", "x", "1", "2", "#"}

Digits == <<"0", "1", "2", "3", "4", "5", "6", "7", "8", "9">>

IsDigit(ch) == \E d \in DOMAIN Digits : Digits[d] = ch

DigitValue(ch) == (CHOOSE d \in DOMAIN Digits : Digits[d] = ch) - 1

\* [A-Z], as far as the alphabet goes.
IsUpperLetter(ch) == ch \in {"W", "X", "C", "A"}

\* str.upper()
upper(s) == [k \in DOMAIN s |-> IF s[k] = "x" THEN "X" ELSE s[k]]

StringsUpTo(n) == UNION {[1..k -> Alphabet] : k \in 1..n}

CodeStrings == StringsUpTo(MaxCodeLen)

\* The length of the longest run of characters of one class that starts
\* after the first `from` characters of s.
LettersFrom(s, from) ==
    CHOOSE n \in 0..(Len(s) - from) :
        /\ \A k \in 1..n : IsUpperLetter(s[from + k])
        /\ from + n = Len(s) \/ ~IsUpperLetter(s[from + n + 1])

DigitsFrom(s, from) ==
    CHOOSE n \in 0..(Len(s) - from) :
        /\ \A k \in 1..n : IsDigit(s[from + k])
        /\ from + n = Len(s) \/ ~IsDigit(s[from + n + 1])

RECURSIVE int(_)
\* int() of a string of decimal digits.
int(s) ==
    IF s = <<>> THEN 0
    ELSE 10 * int(SubSeq(s, 1, Len(s) - 1)) + DigitValue(s[Len(s)])

RECURSIVE Decimal(_)
\* The decimal digits of a natural number.
Decimal(n) ==
    IF n < 10 THEN <<Digits[n + 1]>>
    ELSE Decimal(n \div 10) \o <<Digits[(n % 10) + 1]>>

\* f"{num:0{width}d}"
ZeroPadded(num, width) ==
    LET d == Decimal(num)
    IN  IF Len(d) >= width THEN d
        ELSE [k \in 1..(width - Len(d)) |-> "0"] \o d

\* parse_location_code: re.match(r"([A-Z]+)(\d+)", location_code.upper());
\* the match is anchored at the start only.  `raised`: ValueError.
parse_location_code(location_code) ==
    LET u == upper(location_code)
        a == LettersFrom(u, 0)
        b == DigitsFrom(u, a)
    IN  IF a = 0 \/ b = 0
        THEN [raised |-> TRUE, prefix |-> <<>>, number |-> 0]
        ELSE [raised |-> FALSE, prefix |-> SubSeq(u, 1, a),
              number |-> int(SubSeq(u, a + 1, a + b))]

\* generate_location_codes(start_code, end_code)
generate_location_codes(start_code, end_code) ==
    LET s == parse_location_code(start_code)
        e == parse_location_code(end_code)
        start_padding == Len(start_code) - Len(s.prefix)
    IN  IF s.raised \/ e.raised THEN [raised |-> TRUE, codes |-> <<>>]
        ELSE IF s.prefix # e.prefix THEN [raised |-> TRUE, codes |-> <<>>]
        ELSE IF s.number > e.number THEN [raised |-> TRUE, codes |-> <<>>]
        ELSE [raised |-> FALSE,
              codes |-> [k \in 1..(e.number - s.number + 1) |->
                            s.prefix \o ZeroPadded(s.number + k - 1, start_padding)]]

Valid(code) == ~parse_location_code(code).raised

\* Every code is kept.
validate_location_codes_all(codes) == [k \in DOMAIN codes |-> upper(codes[k])]

\* validate_location_codes: the codes that parse, in upper case; the others
\* are logged and dropped.
validate_location_codes(codes) ==
    LET valid_codes == SelectSeq(codes, Valid)
    IN  [k \in DOMAIN valid_codes |-> upper(valid_codes[k])]

\* A line that load_location_codes_from_file skips: empty, or a comment.
Skipped(line) == line = <<>> \/ line[1] = "#"

Considered(line) == ~Skipped(line)

\* load_location_codes_from_file: the lines (stripped) that are neither
\* empty nor comments, validated; an unreadable file raises.
load_location_codes_from_file(readable, lines) ==
    IF ~readable THEN [raised |-> TRUE, codes |-> <<>>]
    ELSE [raised |-> FALSE,
          codes |-> validate_location_codes(SelectSeq(lines, Considered))]

Lines == CodeStrings \cup {<<>>}

\* main is entered with the parsed argv.
Invoked(method, args, readable) ==
    cli = [method |-> method, args |-> args, readable |-> readable,
           stage |-> "start", location_codes |-> <<>>, exit_code |-> 0]

\* argv: --range START END, --codes CODE [CODE], --file of up to two lines.
CliInit ==
    /\ Quiet
    /\ parse = NoParse
    /\ machine = NoMachine
    /\ \/ \E a \in CodeStrings, b \in CodeStrings : Invoked("range", <<a, b>>, TRUE)
       \/ \E a \in CodeStrings : Invoked("codes", <<a>>, TRUE)
       \/ \E a \in CodeStrings, b \in CodeStrings : Invoked("codes", <<a, b>>, TRUE)
       \/ \E readable \in BOOLEAN : Invoked("file", <<>>, readable)
       \/ \E a \in Lines : Invoked("file", <<a>>, TRUE)
       \/ \E a \in Lines, b \in Lines : Invoked("file", <<a, b>>, TRUE)

\* What the try block of main computes.
InputCodes(method, args, readable) ==
    CASE method = "range" -> generate_location_codes(args[1], args[2])
      [] method = "file" -> load_location_codes_from_file(readable, args)
      [] method = "codes" ->
             [raised |-> FALSE, codes |-> validate_location_codes(args)]

\* main, up to the call of asyncio.run: the code list, or sys.exit(1) on an
\* exception and on an empty list.
main ==
    /\ cli.stage = "start"
    /\ LET r == InputCodes(cli.method, cli.args, cli.readable)
       IN  IF r.raised \/ r.codes = <<>>
           THEN cli' = [cli EXCEPT !.stage = "exited", !.exit_code = 1]
           ELSE cli' = [cli EXCEPT !.stage = "codes", !.location_codes = r.codes]
    /\ UNCHANGED <<disk, pc, locals, call, history, polling, store_writes,
                   location_batch_interval, pause, initial_wait,
                   parse, machine, runs_left,
                   faults_left>>

\* asyncio.run(run_bulk_scraper(location_codes, ...)): from here on
\* requests are sent.
asyncio_run ==
    /\ cli.stage = "codes"
    /\ cli' = [cli EXCEPT !.stage = "running"]
    /\ UNCHANGED <<disk, pc, locals, call, history, polling, store_writes,
                   location_batch_interval, pause, initial_wait,
                   parse, machine, runs_left,
                   faults_left>>

CliNext == main \/ asyncio_run

SpecCli == CliInit /\ [][CliNext]_vars

(* ------------------- parse_and_cleanup_location_data ------------------- *)

\* The directory data_dir/<code> of one resolved location: the location
\* artifact <code>.json, the status artifacts <uln>-<request_time>.json
\* (request times numbered 1..MaxStamps in the order they are taken) and
\* parsed.csv, of which the model keeps how often the rows of each status
\* artifact have been appended.

Stamps == 1..MaxStamps

\* What a status artifact holds: machines of rooms of the location
\* ("rows"); nothing that gives a row, no machine or only rooms the location
\* artifact does not list ("norows"); a machine without an integer
\* time_remaining ("poison"); no JSON document ("unreadable").
StatusKinds == {"rows", "norows", "poison", "unreadable"}

\* ULNs as the API may return them: the usual shape, too short, in lower
\* case, with a dash.
Ulns == {<<"C", "A", "1">>, <<"C", "A">>, <<"c", "a", "1">>, <<"C", "A", "-", "1">>}

\* The name of the status artifact of request time k, and of the location
\* artifact, as (stem, request time); 0: the name ends in no request time.
StatusName(uln, k) == [stem |-> uln, stamp |-> k]

LocationName == [stem |-> <<"W", "1">>, stamp |-> 0]

\* uln_pattern.match(name): two capitals, one or more capitals or digits, a
\* dash, a request time, ".json".
uln_pattern(name) ==
    /\ name.stamp # 0
    /\ Len(name.stem) >= 3
    /\ \A k \in 1..2 : IsUpperLetter(name.stem[k])
    /\ \A k \in 3..Len(name.stem) : IsUpperLetter(name.stem[k]) \/ IsDigit(name.stem[k])

\* The status artifacts in the directory.
Present(files) == {k \in Stamps : files[k] # "absent"}

\* parser.parse_location_code_data: no records without a readable location
\* artifact; otherwise the records of every status artifact of the ULN
\* that loads, by request time; int(None) raises TypeError.
parse_location_code_data(location, files) ==
    IF location # "ok" THEN [raised |-> FALSE, records |-> {}]
    ELSE IF \E k \in Stamps : files[k] = "poison"
    THEN [raised |-> TRUE, records |-> {}]
    ELSE [raised |-> FALSE, records |-> {k \in Stamps : files[k] = "rows"}]

ParseInit ==
    /\ Quiet
    /\ cli = NoCli
    /\ machine = NoMachine
    /\ \E uln \in Ulns, location \in {"ok", "unreadable"} :
           parse = [uln |-> uln, location |-> location,
                    files |-> [k \in Stamps |-> "absent"],
                    table |-> [k \in Stamps |-> 0],
                    taken |-> 0, calls |-> 0, last |-> NoLast]

\* scrape_machine_status_batch writes the status artifact of the next
\* request time; a write that fails midway leaves no JSON document.
SaveStatusFile(kind) ==
    /\ parse.location # "none"
    /\ parse.taken < MaxStamps
    /\ parse' = [parse EXCEPT !.files[parse.taken + 1] = kind,
                              !.taken = @ + 1,
                              !.last = NoLast]
    /\ UNCHANGED <<disk, pc, locals, call, history, polling, store_writes,
                   location_batch_interval, pause, initial_wait,
                   cli, machine, runs_left,
                   faults_left>>

\* One call of parse_and_cleanup_location_data; unlink raises for the
\* artifacts of `fails`.
parse_and_cleanup_location_data(fails) ==
    /\ parse.location # "none"
    /\ parse.calls < MaxParses
    /\ LET r == parse_location_code_data(parse.location, parse.files)
           appends == ~r.raised /\ r.records # {}
           removed == IF appends
                      THEN {k \in Present(parse.files) :
                                uln_pattern(StatusName(parse.uln, k))} \ fails
                      ELSE {}
       IN  /\ fails \subseteq Present(parse.files)
           /\ fails # {} => appends /\ \A k \in fails : uln_pattern(StatusName(parse.uln, k))
           /\ parse' =
                  [parse EXCEPT
                      !.table = [k \in Stamps |->
                                    IF appends /\ k \in r.records THEN @[k] + 1 ELSE @[k]],
                      !.files = [k \in Stamps |-> IF k \in removed THEN "absent" ELSE @[k]],
                      !.location = IF appends /\ uln_pattern(LocationName)
                                   THEN "deleted" ELSE @,
                      !.calls = @ + 1,
                      !.last = [made |-> TRUE,
                                before |-> Present(parse.files),
                                appended |-> IF appends THEN r.records ELSE {},
                                deleted |-> removed,
                                returned |-> appends,
                                repeat |-> parse.last.made]]
    /\ UNCHANGED <<disk, pc, locals, call, history, polling, store_writes,
                   location_batch_interval, pause, initial_wait,
                   cli, machine, runs_left,
                   faults_left>>

ParseNext ==
    \/ \E kind \in StatusKinds : SaveStatusFile(kind)
    \/ \E fails \in SUBSET Stamps : parse_and_cleanup_location_data(fails)

SpecParse == ParseInit /\ [][ParseNext]_vars

(* --------------------------- calculate_status -------------------------- *)

\* A timestamp string: what datetime.fromisoformat makes of it ("utc": with
\* an offset, "naive": without, "bad": ValueError) and its time in seconds.
Time(kind, seconds) == [kind |-> kind, seconds |-> seconds]

\* The request time of the artifact: the name carries a Z.
RequestAt == Time("utc", (MaxRemaining + 2) * SecondsPerMinute)

\* start_time of a machine: absent (None or ""), or a timestamp from a
\* minute after the request back to the epoch of the model.
StartTimes ==
    {Time("absent", 0)}
        \cup {Time("utc", s) : s \in 0..(RequestAt.seconds + SecondsPerMinute)}
        \cup {Time(kind, 0) : kind \in {"naive", "bad"}}

\* time_remaining: absent (int(None) raises TypeError) or an integer.
Remaining(given, minutes) == [given |-> given, minutes |-> minutes]

RemainingValues ==
    {Remaining(FALSE, 0)} \cup {Remaining(TRUE, n) : n \in 0..MaxRemaining}

MachineStatuses == {"ERROR", "AVAILABLE"}

\* (request_time - start_time).total_seconds() // 60; `raised`: a string
\* that is no timestamp, or an aware and a naive datetime subtracted.
ElapsedMinutes(request_time, start_time) ==
    IF request_time.kind = "bad" \/ start_time.kind = "bad"
           \/ request_time.kind # start_time.kind
    THEN [raised |-> TRUE, minutes |-> 0]
    ELSE [raised |-> FALSE,
          minutes |-> (request_time.seconds - start_time.seconds) \div SecondsPerMinute]

\* calculate_status(machine, request_time_str)
calculate_status(m, request_time) ==
    IF m.status = "ERROR" THEN "error"
    ELSE IF ~m.time_remaining.given THEN "TypeError"
    ELSE IF m.time_remaining.minutes = 0 THEN "available"
    ELSE IF m.start_time.kind = "absent" THEN "available"
    ELSE LET e == ElapsedMinutes(request_time, m.start_time)
         IN  IF e.raised THEN "available"
             ELSE IF e.minutes > m.time_remaining.minutes THEN "available"
             ELSE "in_use"

StatusInit ==
    /\ Quiet
    /\ cli = NoCli
    /\ parse = NoParse
    /\ \E status \in MachineStatuses, time_remaining \in RemainingValues,
          start_time \in StartTimes :
           machine = [status |-> status, time_remaining |-> time_remaining,
                      start_time |-> start_time, request_time |-> RequestAt,
                      result |-> "none"]

\* The record of parse_location_code_data gets its "status".
CalculateStatus ==
    /\ machine.status # "none"
    /\ machine.result = "none"
    /\ machine' = [machine EXCEPT !.result = calculate_status(machine, machine.request_time)]
    /\ UNCHANGED <<disk, pc, locals, call, history, polling, store_writes,
                   location_batch_interval, pause, initial_wait, cli, parse,
                   runs_left, faults_left>>

StatusNext == CalculateStatus

SpecStatus == StatusInit /\ [][StatusNext]_vars

(* ------------------------------- claims -------------------------------- *)

Abs(x) == IF x < 0 THEN -x ELSE x

\* The call under SpecPlan has returned, for a non-empty work-set.
Planned == call.made /\ call.total >= 1

\* C1: in every state of a run, from startup on, no key is both in the
\* failure set and in the resolved-entity map the polling phase iterates.
C1_FailedNeverResolved ==
    Running =>
        /\ failed_codes \cap SeqToSet(existing_locations) = {}
        /\ failed_codes \cap SeqToSet(location_items) = {}

\* C4: for totalItems >= 1 the batch size lies in [minBatch, maxBatch],
\* for every pair of bounds.
C4_SizeWithinBounds ==
    Planned => (call.lo <= call.ret[1] /\ call.ret[1] <= call.hi)

\* C5: for totalItems >= 1 the batch size is at least 1 and numBatches =
\* ceil(totalItems / batchSize) satisfies
\* numBatches * batchSize >= totalItems > (numBatches - 1) * batchSize.
C5_BatchesCoverItems ==
    Planned =>
        LET size == call.ret[1]
            num == Ceil(call.total, size)
        IN  /\ size >= 1
            /\ num * size >= call.total
            /\ call.total > (num - 1) * size

\* C5 witness: a plan of several batches whose last batch is not full.
C5_Witness ==
    /\ Planned
    /\ call.total > 2 * call.ret[1]
    /\ call.total % call.ret[1] # 0

\* C6: for totalItems >= 1 the batch size is the integer nearest to
\* totalItems / intervalSeconds (a tie going to the even one), raised to 1,
\* then clamped to [minBatch, maxBatch] (the lower bound winning when the
\* bounds cross); the delay is intervalSeconds / numBatches for more than
\* one batch and 0 for one; plan(100, 900, 5, 50) = (5, 45) with 20 batches
\* and plan(7, 900, 5, 50) = (5, 450) with 2 batches.
C6_PlanFormula ==
    Planned =>
        LET size == call.ret[1]
            delay == call.ret[2]
            Nearest(r) ==
                /\ 2 * Abs(call.total - r * call.interval) <= call.interval
                /\ 2 * Abs(call.total - r * call.interval) = call.interval
                       => r % 2 = 0
            Clamped(x) ==
                IF x < call.lo \/ call.hi < call.lo THEN call.lo
                ELSE IF x > call.hi THEN call.hi ELSE x
            Batches(n) ==
                /\ n * size >= call.total
                /\ call.total > (n - 1) * size
            Scenario(s) ==
                (/\ call.total = s.total
                 /\ call.interval = s.interval
                 /\ call.lo = s.lo
                 /\ call.hi = s.hi)
                    => /\ size = s.size
                       /\ Batches(s.batches)
                       /\ delay.num = s.delay * delay.den
        IN  /\ \E r \in 0..call.total :
                   Nearest(r) /\ size = Clamped(Max(1, r))
            /\ delay.den >= 1
            /\ \E n \in 1..call.total :
                   /\ Batches(n)
                   /\ n > 1 => delay.num * n = call.interval * delay.den
                   /\ n = 1 => delay.num = 0
            /\ Scenario(ScenarioA)
            /\ Scenario(ScenarioB)

\* C6 witness: the first documented scenario has been planned.
C6_Witness ==
    /\ Planned
    /\ call.total = ScenarioA.total
    /\ call.interval = ScenarioA.interval
    /\ call.lo = ScenarioA.lo
    /\ call.hi = ScenarioA.hi
    /\ call.ret = <<ScenarioA.size, Fraction(ScenarioA.interval, ScenarioA.batches)>>

\* C8: no batch of a run, in either phase, has more than max_concurrent
\* requests in flight.
C8_AtMostMaxConcurrent == Running => Len(inflight) <= max_concurrent


(* Passes: the resolution pass and the polling cycle. *)

InResolutionPass == pc \in {"phase1", "location_inflight", "phase1_end"}

InPollingCycle == pc \in {"polling", "status_inflight", "cycle_end"}

PassDone == pc \in {"phase1_end", "cycle_end"}

WorkSet == IF InResolutionPass THEN codes_needing_location ELSE location_items

BatchSize == IF InResolutionPass THEN location_batch_size ELSE status_batch_size

\* The number of requests the batches of `log` issued.
RECURSIVE RequestCount(_)
RequestCount(log) ==
    IF log = <<>> THEN 0
    ELSE Len(log[Len(log)].requests) + RequestCount(SubSeq(log, 1, Len(log) - 1))

\* The number of requests for code c the batches of `log` issued.
RECURSIVE RequestsFor(_, _)
RequestsFor(log, c) ==
    IF log = <<>> THEN 0
    ELSE Len(SelectSeq(log[Len(log)].requests, LAMBDA d : d = c))
             + RequestsFor(SubSeq(log, 1, Len(log) - 1), c)

\* The batches issued so far are consecutive slices of the work-set taken
\* in its order: batch j holds the items (j-1)*size+1 .. j*size, cut at the
\* end of the work-set; a finished pass has ceil(|work-set| / size) of them.
BatchesAreSlices ==
    (InResolutionPass \/ InPollingCycle) =>
        LET work == WorkSet
            size == BatchSize
            n == Len(pass_log)
        IN  /\ size >= 1
            /\ \A j \in 1..n :
                   LET batch == pass_log[j].batch
                   IN  /\ Len(batch) >= 1
                       /\ Len(batch) = Min(size, Len(work) - (j - 1) * size)
                       /\ \A m \in 1..Len(batch) : batch[m] = work[(j - 1) * size + m]
            /\ PassDone => ((n - 1) * size < Len(work) /\ Len(work) <= n * size)

\* C2 as stated: a finished pass has issued |work-set| requests, in
\* ceil(|work-set| / batchSize) consecutive slices of the work-set.
C2_RequestsEqualWorkSet ==
    /\ BatchesAreSlices
    /\ PassDone => RequestCount(pass_log) = Len(WorkSet)

\* C2 as amended: the batches are ceil(|work-set| / batchSize) consecutive
\* slices of the work-set in its order; a polling cycle issues one request
\* per item, |work-set| in all; the resolution pass issues one request for
\* each item that is neither in the failure set nor has an artifact file
\* when its batch is issued, at most |work-set| in all.
C2_RequestsWithinWorkSet ==
    /\ BatchesAreSlices
    /\ InPollingCycle =>
           /\ \A j \in DOMAIN pass_log : pass_log[j].requests = pass_log[j].batch
           /\ PassDone => RequestCount(pass_log) = Len(WorkSet)
    /\ InResolutionPass =>
           /\ \A j \in DOMAIN pass_log :
                  pass_log[j].requests =
                      SelectSeq(pass_log[j].batch,
                                LAMBDA c : c \in SeqToSet(pass_log[j].requests))
           /\ RequestCount(pass_log) <= Len(WorkSet)
    /\ pc = "location_inflight" =>
           /\ inflight = pass_log[Len(pass_log)].requests
           /\ inflight = SelectSeq(pass_log[Len(pass_log)].batch,
                             LAMBDA c : c \notin failed_codes /\ location_file[c] = "none")

\* C2 witness: a finished resolution pass of two batches that skipped an
\* item of its second batch.
C2_Witness ==
    /\ pc = "phase1_end"
    /\ Len(pass_log) = 2
    /\ Len(pass_log[2].requests) < Len(pass_log[2].batch)
    /\ Len(pass_log[1].requests) = location_batch_size

\* C3: once the polling phase runs, and unless the run is stopped, cycles
\* follow one another forever (every cycle under way finishes, every
\* finished cycle is followed by the next), and every finished cycle has
\* issued exactly one status request for each resolved entity and none for
\* any other code: every resolved entity is requested again and again.
C3_EveryEntityPolledForever ==
    /\ [](pc = "cycle_end" =>
            /\ location_items = existing_locations
            /\ \A c \in Codes :
                   RequestsFor(pass_log, c) =
                       IF c \in SeqToSet(existing_locations) THEN 1 ELSE 0)
    /\ (pc \in {"polling", "status_inflight"}) ~> (pc = "cycle_end" \/ ~Running)
    /\ (pc = "cycle_end") ~> (pc = "status_inflight" \/ ~Running)

\* C3 witness: a finished polling cycle of two batches.
C3_Witness ==
    /\ pc = "cycle_end"
    /\ Len(pass_log) = 2
    /\ Len(location_items) > status_batch_size

\* calculate_batch_parameters(0, ...) is (0, 0).
ZeroTotalPlansNothing ==
    \A interval \in IntervalValues, lo \in MinBatchValues, hi \in MaxBatchValues :
        calculate_batch_parameters(0, interval, lo, hi) = <<0, Zero>>

\* C7: a call with totalItems = 0 returns (0, 0) whatever the interval and
\* the bounds, and a run never makes it: it plans and iterates batches over
\* non-empty work-sets only, skipping the resolution phase when no code
\* needs resolving and returning before polling when nothing is resolved.
C7_NoPlanOverEmptyWorkSet ==
    /\ ZeroTotalPlansNothing
    /\ call.made => call.total >= 1
    /\ InResolutionPass =>
           (codes_needing_location # <<>> /\ location_batch_size >= 1)
    /\ InPollingCycle => (location_items # <<>> /\ status_batch_size >= 1)
    /\ (Running /\ codes_needing_location = <<>>) =>
           (requested = <<>> /\ flushed = "none")

\* C7 witness: a run that skipped the resolution phase and is about to
\* return because nothing is resolved.
C7_Witness ==
    /\ pc = "phase2_check"
    /\ location_codes # <<>>
    /\ ~call.made
    /\ codes_needing_location = <<>>
    /\ existing_locations = <<>>

\* The resolution pass of this run is over (its flush was attempted).
AfterPass == Running /\ flushed # "none"

\* C9: a code answered 404 in the resolution pass is in the failure set and
\* in the persisted store after the pass, and the next run issues no
\* location request for it.
C9_NotFoundIsPersisted ==
    /\ AfterPass =>
           \A c \in notfound :
               /\ c \in failed_codes
               /\ failed_file.ok
               /\ c \in failed_file.codes
    /\ Running => prev.notfound \cap SeqToSet(requested) = {}

\* What load_failed_codes returned at startup.
LoadedAtStartup == IF startup.load_ok THEN startup.store.codes ELSE {}

\* C10: a run whose input codes all have a location artifact issues no
\* location request and leaves the failure set unchanged, in memory and in
\* the persisted store.
C10_WarmRunChangesNothing ==
    (Running /\ startup.all_cached) =>
        /\ requested = <<>>
        /\ failed_codes = LoadedAtStartup
        /\ failed_file = startup.store

(* The failure set and the failure store within a run. *)

\* C11: within a run the in-memory failure set only grows: every step of
\* the run leaves it a superset of what it was.
C11_FailureSetOnlyGrows ==
    [][(Running /\ Running') => failed_codes \subseteq failed_codes']_vars

\* C11 witness: a run that loaded a non-empty failure set has added a key.
C11_Witness ==
    /\ Running
    /\ LoadedAtStartup # {}
    /\ LoadedAtStartup \subseteq failed_codes
    /\ failed_codes \ LoadedAtStartup # {}

\* The branches of a result that is neither a saved payload nor a 404.
OtherFailures == {"skipped", "partial"}

\* C18: a key is in the failure set only if the store held it at startup
\* or one of its location requests of this run was answered 404; no other
\* outcome of a request adds its key.
C18_OnlyNotFoundAdded ==
    /\ Running => failed_codes \subseteq (LoadedAtStartup \cup notfound)
    /\ InResolutionPass =>
           \A c \in failed_codes \ LoadedAtStartup :
               \E j \in DOMAIN pass_log :
                   \E k \in DOMAIN pass_log[j].outcomes :
                       /\ pass_log[j].requests[k] = c
                       /\ pass_log[j].outcomes[k] = "notfound"

\* C18 witness: a pass with a 404 and with a request that failed otherwise,
\* whose key is not in the failure set.
C18_Witness ==
    /\ pc = "phase1_end"
    /\ notfound # {}
    /\ \E j \in DOMAIN pass_log :
           \E k \in DOMAIN pass_log[j].outcomes :
               /\ pass_log[j].outcomes[k] \in OtherFailures
               /\ pass_log[j].requests[k] \notin failed_codes

\* C19: save_failed_codes is not called before or during the batches of a
\* resolution pass and is called exactly once after the last batch of the
\* pass completed (and not at all in a run without resolution pass).
C19_StoreWrittenOnceAfterPass ==
    /\ (pc = "started" \/ InResolutionPass) => store_writes = 0
    /\ (pc = "phase2_check" \/ InPollingCycle) =>
           store_writes = IF codes_needing_location # <<>> THEN 1 ELSE 0
    /\ (pc = "phase2_check" /\ store_writes = 1) =>
           /\ i >= Len(codes_needing_location)
           /\ Len(pass_log) = Ceil(Len(codes_needing_location), location_batch_size)
           /\ \A j \in DOMAIN pass_log :
                  Len(pass_log[j].outcomes) = Len(pass_log[j].requests)

\* C19 witness: the store was written after a pass of two batches.
C19_Witness ==
    /\ pc = "phase2_check"
    /\ store_writes = 1
    /\ Len(pass_log) = 2
    /\ pass_log[1].requests # <<>>
    /\ pass_log[2].requests # <<>>

\* C20: whatever the write of the failure store did, the step after the
\* resolution pass leaves the failure set as it is, merges the new
\* locations into the resolved map and goes on to the polling phase; a
\* failed write never ends the run (a run stopped or killed from outside
\* at that point aside).
C20_FlushFailureDoesNotAbort ==
    /\ [][(pc = "phase1_end" /\ exit_status' \notin {"interrupted", "killed"}) =>
              /\ pc' = "phase2_check"
              /\ failed_codes' = failed_codes
              /\ existing_locations' = DictUpdate(existing_locations, new_locations)]_vars
    /\ [](flushed \in {"failed", "corrupt"} =>
              (pc = "phase2_check" \/ InPollingCycle))

\* C20 witness: the polling phase runs after a failed write of a failure
\* set that holds a key.
C20_Witness ==
    /\ pc = "status_inflight"
    /\ flushed \in {"failed", "corrupt"}
    /\ failed_codes # {}

(* How a run ends. *)

\* C17: a 200 payload without a readable identifier is a transient
\* failure: it never ends the run, and an item whose only result was
\* skipped (a payload without ULN among them) is added neither to the
\* resolved map nor to the failure set and gets no artifact.
C17_NoIdentifierIsTransient ==
    /\ prev.malformed = {}
    /\ InResolutionPass =>
           \A j \in DOMAIN pass_log :
               \A k \in DOMAIN pass_log[j].outcomes :
                   (/\ pass_log[j].outcomes[k] = "skipped"
                    /\ RequestsFor(pass_log, pass_log[j].requests[k]) = 1)
                       => /\ pass_log[j].requests[k] \notin failed_codes
                          /\ pass_log[j].requests[k] \notin SeqToSet(new_locations)
                          /\ location_file[pass_log[j].requests[k]] = "none"

\* C15: a stop signal that arrives while a polling batch is in flight ends
\* the run only after the batch is done (no request of it is cancelled)
\* and without raising.
C15_StopFinishesBatch ==
    (prev.stopped /\ prev.at = "status_inflight") =>
        /\ prev.cancelled = 0
        /\ exit_status = "returned"

\* C16 as stated: a run returns normally only if the stop signal was
\* observed.
C16_ReturnsOnlyOnStop == exit_status = "returned" => prev.stopped

\* C16 as amended: a run returns normally only if the stop signal was
\* observed in the polling loop or if the resolved map was empty when the
\* resolution phase was over.
C16_ReturnsOnStopOrNothingResolved ==
    exit_status = "returned" =>
        \/ prev.stopped /\ prev.at \in {"polling", "status_inflight", "cycle_end"}
        \/ prev.at = "phase2_check" /\ prev.resolved = 0

\* C16 witness: a run returned after a resolution pass that resolved
\* nothing.
C16_Witness ==
    /\ exit_status = "returned"
    /\ prev.flushed # "none"
    /\ prev.resolved = 0

(* The polling cycle. *)

\* The batches of the pass under way whose results have been processed.
Completed == {j \in DOMAIN pass_log : pass_log[j].outcomes # <<>>}

\* The codes of batch j whose request had the outcome o.
CodesWith(j, o) ==
    {pass_log[j].requests[k] :
         k \in {n \in DOMAIN pass_log[j].outcomes : pass_log[j].outcomes[n] = o}}

\* C12: whatever the other requests of its batch did, a location request
\* answered with a ULN is resolved and one answered 404 is in the failure
\* set, nothing else is resolved, and the status artifacts saved for a
\* batch are exactly those of its requests that returned a payload which
\* could be written.
C12_FailuresAreIsolated ==
    /\ InResolutionPass =>
           /\ SeqToSet(new_locations) = UNION {CodesWith(j, "ok") : j \in Completed}
           /\ \A j \in Completed : CodesWith(j, "notfound") \subseteq failed_codes
    /\ InPollingCycle =>
           \A j \in Completed :
               {a.code : a \in {b \in saved : b.batch = j}} = CodesWith(j, "ok")

\* C12 witness: the first request of a status batch failed and a later one
\* of the same batch was saved.
C12_Witness ==
    /\ InPollingCycle
    /\ \E j \in Completed :
           /\ pass_log[j].outcomes[1] = "failed"
           /\ \E a \in saved : a.batch = j /\ a.code \in CodesWith(j, "ok")

IntervalTicks == interval_seconds * TicksPerSecond

\* C13: a cycle that took longer than the interval is followed by no
\* sleep and by the warning, and the next cycle has started at once.
C13_OverrunNoCooldown ==
    (cooldown.made /\ cooldown.duration > IntervalTicks) =>
        /\ cooldown.slept = 0
        /\ cooldown.warned
        /\ pc = "polling"
        /\ now = 0

\* C13 witness: an overrun cycle has ended and the next one has started.
C13_Witness ==
    /\ cooldown.made
    /\ cooldown.duration > IntervalTicks
    /\ pc = "polling"
    /\ now = 0

\* C14 as stated: all status artifacts saved in one cycle carry the same
\* timestamp.
C14_OneStampPerCycle == \A a, b \in saved : a.stamp = b.stamp

\* C14 as amended: all status artifacts saved by one batch carry the same
\* timestamp, taken once per batch: a cycle has at most as many timestamps
\* as batches.
C14_OneStampPerBatch ==
    /\ \A a, b \in saved : a.batch = b.batch => a.stamp = b.stamp
    /\ Cardinality({a.stamp : a \in saved}) <= Cardinality(Completed)

\* C14 witness: a cycle has saved two artifacts in one batch and one with
\* another timestamp in another batch.
C14_Witness ==
    \E a, b, c \in saved :
        /\ a.batch = b.batch
        /\ a.code # b.code
        /\ c.batch # a.batch
        /\ c.stamp # a.stamp

(* Sequencing of the phases and the batches. *)

\* C22: the next cycle starts the cycle's duration plus the cooldown after
\* the start of the cycle: never less than the interval, and exactly the
\* interval when the cycle took less.
C22_CycleStartsIntervalApart ==
    cooldown.made =>
        /\ cooldown.duration + cooldown.slept >= IntervalTicks
        /\ cooldown.duration < IntervalTicks =>
               cooldown.duration + cooldown.slept = IntervalTicks

\* C22 witness: a cycle shorter than the interval has ended with a sleep.
C22_Witness ==
    /\ cooldown.made
    /\ cooldown.duration > 0
    /\ cooldown.duration < IntervalTicks
    /\ cooldown.slept > 0
    /\ pc = "polling"

\* C27: a process that ends inside a write leaves no incomplete file at the
\* path it was writing.
C27_WritesAreAtomic == prev.torn = {}

\* C28: the requests in flight are those of the one batch issued last, all
\* batches before it have been processed, and a status request is in
\* flight only after the resolution pass, the write of the failure store
\* and the update of the resolved map.
C28_OneBatchInFlight ==
    /\ inflight # <<>> => pc \in {"location_inflight", "status_inflight"}
    /\ pc \in {"location_inflight", "status_inflight"} =>
           /\ inflight = pass_log[Len(pass_log)].requests
           /\ \A j \in 1..(Len(pass_log) - 1) :
                  Len(pass_log[j].outcomes) = Len(pass_log[j].requests)
    /\ InPollingCycle =>
           /\ codes_needing_location # <<>> => (flushed # "none" /\ store_writes = 1)
           /\ SeqToSet(new_locations) \subseteq SeqToSet(existing_locations)
           /\ SeqToSet(inflight) \subseteq SeqToSet(existing_locations)

\* C28 witness: the second status batch is in flight after a resolution
\* pass of two batches.
C28_Witness ==
    /\ pc = "status_inflight"
    /\ Len(pass_log) = 2
    /\ total_location_batches = 2
    /\ new_locations # <<>>

\* C29: no location request is issued for a code that is in the failure set
\* when its batch is issued or that was in it when the run started, nor for
\* a code resolved from its artifact at startup.
C29_NoRequestForFailedOrResolved ==
    /\ InResolutionPass =>
           /\ SeqToSet(requested) \cap SeqToSet(existing_locations) = {}
           /\ SeqToSet(requested) \cap LoadedAtStartup = {}
           /\ \A j, m \in DOMAIN pass_log :
                  (j < m /\ j \in Completed) =>
                      CodesWith(j, "notfound") \cap SeqToSet(pass_log[m].requests) = {}
    /\ pc = "location_inflight" => SeqToSet(inflight) \cap failed_codes = {}

\* C29 witness: requests are in flight in a run that loaded a failure set
\* and a resolved map which both hold codes of its input.
C29_Witness ==
    /\ pc = "location_inflight"
    /\ LoadedAtStartup \cap SeqToSet(location_codes) # {}
    /\ existing_locations # <<>>

\* C30: every key of the resolved map, old or new, has a location artifact
\* that holds its identifier.
C30_ResolvedHasArtifact ==
    Running =>
        \A c \in SeqToSet(existing_locations) \cup SeqToSet(new_locations) :
            location_file[c] = "uln"

(* The waits between the batches. *)

\* The number of batches of the pass under way.
BatchCount == Ceil(Len(WorkSet), BatchSize)

\* The delay planned between two batches of the pass, in ticks.
PlannedDelay == IF BatchCount > 1 THEN IntervalTicks \div BatchCount ELSE 0

\* C21: after a batch that is not the last of its pass the loop waits the
\* planned delay less the time since the batch started, or not at all if
\* that is negative; after the last batch it does not wait.
C21_InterBatchSleep ==
    pause.made =>
        /\ pause.slept >= 0
        /\ pause.slept <= PlannedDelay
        /\ i >= Len(WorkSet) => pause.slept = 0
        /\ i < Len(WorkSet) => pause.slept = Max(0, PlannedDelay - pause.elapsed)

\* C21 witness: the first of two location batches has been processed and
\* followed by a wait.
C21_Witness ==
    /\ pc = "phase1"
    /\ pause.made
    /\ pause.elapsed > 0
    /\ pause.slept = PlannedDelay - pause.elapsed
    /\ pause.slept > 0

\* C24: every status artifact a batch has saved was handed to
\* parse_and_cleanup_location_data by the call that saved it, that is
\* before the next batch is issued and before the cycle ends.
C24_ParsedBeforeNextBatch ==
    InPollingCycle => \A a \in saved : a.parsed

\* C24 witness: the second batch of a cycle is in flight and the first has
\* saved an artifact.
C24_Witness ==
    /\ pc = "status_inflight"
    /\ Len(pass_log) = 2
    /\ \E a \in saved : a.batch = 1 /\ a.parsed

(* The command line. *)

\* main has got past the try block.
MainDone == cli.stage \in {"exited", "codes", "running"}

\* The codes the user supplied: the endpoints, the listed codes, the lines
\* of the file that are neither empty nor comments.
Supplied ==
    IF cli.method = "file" THEN SelectSeq(cli.args, Considered) ELSE cli.args

\* A configuration error, as the taxonomy lists them: a code with a bad
\* format, an empty list, endpoints of a range with different prefixes.
ConfigError ==
    \/ \E k \in DOMAIN Supplied : ~Valid(Supplied[k])
    \/ Supplied = <<>>
    \/ /\ cli.method = "range"
       /\ \A k \in DOMAIN Supplied : Valid(Supplied[k])
       /\ parse_location_code(Supplied[1]).prefix # parse_location_code(Supplied[2]).prefix

\* C23, as stated: with a configuration error main exits with a non-zero
\* status and never gets to the run, whatever the input method.
C23_ConfigErrorIsFatal ==
    (MainDone /\ ConfigError) => cli.stage = "exited" /\ cli.exit_code # 0

\* The input leaves no code list to run with.
NoUsableCodes ==
    CASE cli.method = "range" ->
             \/ \E k \in DOMAIN Supplied : ~Valid(Supplied[k])
             \/ parse_location_code(Supplied[1]).prefix
                    # parse_location_code(Supplied[2]).prefix
             \/ parse_location_code(Supplied[1]).number
                    > parse_location_code(Supplied[2]).number
      [] cli.method = "file" ->
             ~cli.readable \/ \A k \in DOMAIN Supplied : ~Valid(Supplied[k])
      [] cli.method = "codes" -> \A k \in DOMAIN Supplied : ~Valid(Supplied[k])

\* C23, amended: main exits with status 1, before the run, exactly when the
\* input leaves no usable code list (a bad endpoint, a prefix mismatch or a
\* descending range; an unreadable file; no valid code in the file or the
\* list); otherwise the run starts with the valid codes, in upper case, the
\* badly formatted ones of --file and --codes dropped.
C23_FatalIffNoUsableCodes ==
    MainDone =>
        /\ cli.stage = "exited" <=> NoUsableCodes
        /\ cli.stage = "exited" => cli.exit_code = 1 /\ cli.location_codes = <<>>
        /\ cli.stage # "exited" =>
               /\ cli.location_codes # <<>>
               /\ \A k \in DOMAIN cli.location_codes :
                      /\ Valid(cli.location_codes[k])
                      /\ upper(cli.location_codes[k]) = cli.location_codes[k]
               /\ cli.method # "range" =>
                      cli.location_codes =
                          [k \in DOMAIN SelectSeq(Supplied, Valid) |->
                              upper(SelectSeq(Supplied, Valid)[k])]

\* C23 witness: --codes with two badly formatted codes has exited with
\* status 1.
C23_Witness ==
    /\ cli.method = "codes"
    /\ Len(cli.args) = 2
    /\ \A k \in DOMAIN cli.args : ~Valid(cli.args[k])
    /\ cli.stage = "exited"
    /\ cli.exit_code = 1

(* The parser and the cleanup. *)

\* C25: a call of parse_and_cleanup_location_data that appends rows
\* deletes exactly the status artifacts whose rows it appended, so that
\* none of them is left, no rows are appended twice, and the location
\* artifact stays.
C25_CleanupMatchesAppend ==
    /\ parse.location # "deleted"
    /\ \A k \in DOMAIN parse.table : parse.table[k] <= 1
    /\ (parse.last.made /\ parse.last.appended # {}) =>
           /\ parse.last.deleted = parse.last.appended
           /\ \A k \in parse.last.appended : parse.files[k] = "absent"

\* C26: a call for a location without status artifacts changes nothing,
\* and a call that follows another call directly appends no rows and
\* deletes no files.
C26_RepeatIsNoOp ==
    parse.last.made =>
        /\ parse.last.before = {} =>
               /\ parse.last.appended = {}
               /\ parse.last.deleted = {}
               /\ ~parse.last.returned
        /\ parse.last.repeat =>
               /\ parse.last.appended = {}
               /\ parse.last.deleted = {}

(* Failures in the polling phase. *)

\* C31: a status payload that could not be written is not counted and its
\* entity is not handed to the parser by that batch, the other payloads of
\* the batch are saved, counted and parsed, the batch ends the run only on
\* the stop signal, and the next cycle has the same items, each of which a
\* cycle requests once.
C31_SaveFailureSkipsEntity ==
    /\ [](InPollingCycle =>
            \A j \in Completed :
                /\ pass_log[j].success = Cardinality(CodesWith(j, "ok"))
                /\ pass_log[j].parsed = CodesWith(j, "ok")
                /\ {a.code : a \in {b \in saved : b.batch = j}} = CodesWith(j, "ok"))
    /\ [][(pc = "status_inflight" /\ pc' = "idle") => prev'.stopped]_vars
    /\ [][(pc = "cycle_end" /\ pc' = "polling") =>
              location_items' = location_items]_vars
    /\ [](pc = "cycle_end" =>
            \A c \in SeqToSet(location_items) : RequestsFor(pass_log, c) = 1)

\* C31 witness: the first payload of a batch could not be written, a later
\* one of the batch was saved, and the next batch is in flight.
C31_Witness ==
    /\ pc = "status_inflight"
    /\ Len(pass_log) = 2
    /\ pass_log[1].outcomes[1] = "savefail"
    /\ pass_log[1].success >= 1
    /\ pass_log[1].requests[1] \notin pass_log[1].parsed

\* C33: no step of the polling phase changes the failure set, the resolved
\* map or the items of the cycles, whatever the status requests returned
\* (a 404, a timeout, an error): the entity is left out of this cycle's
\* artifacts only, and every cycle requests every item once.
C33_PollingLeavesSetsAlone ==
    /\ [][(InPollingCycle /\ Running') =>
              /\ failed_codes' = failed_codes
              /\ existing_locations' = existing_locations
              /\ location_items' = location_items]_vars
    /\ [](InPollingCycle => location_items = existing_locations)
    /\ [](pc = "cycle_end" =>
            \A c \in SeqToSet(existing_locations) : RequestsFor(pass_log, c) = 1)

\* C33 witness: a status request of a finished batch returned no payload
\* and the cycle goes on.
C33_Witness ==
    /\ pc = "status_inflight"
    /\ \E j \in Completed : CodesWith(j, "failed") # {}
    /\ \A j \in Completed : CodesWith(j, "failed") \cap failed_codes = {}

(* The start of the polling phase. *)

\* C34: after a resolution phase that took less than the interval the
\* first polling cycle starts the interval after the start of the run, not
\* earlier; when no code needed resolving, or the phase took the interval
\* or longer, polling starts without a wait.
C34_FirstCycleAfterInterval ==
    initial_wait.made =>
        /\ pc = "polling"
        /\ initial_wait.resolved = (requested # <<>> \/ flushed # "none")
        /\ (initial_wait.resolved /\ initial_wait.phase1_duration < IntervalTicks) =>
               initial_wait.phase1_duration + initial_wait.slept = IntervalTicks
        /\ (~initial_wait.resolved \/ initial_wait.phase1_duration >= IntervalTicks) =>
               initial_wait.slept = 0

\* C34 witness: polling is about to start after a short resolution phase
\* and a wait.
C34_Witness ==
    /\ initial_wait.made
    /\ initial_wait.resolved
    /\ initial_wait.phase1_duration > 0
    /\ initial_wait.phase1_duration < IntervalTicks
    /\ initial_wait.slept > 0

(* The status of a machine. *)

\* The whole minutes from start_time to the request time.
WholeMinutes ==
    (machine.request_time.seconds - machine.start_time.seconds) \div SecondsPerMinute

\* The machine is neither in error nor idle and has a start time that is a
\* timestamp like the request time.
Timed ==
    /\ machine.status # "ERROR"
    /\ machine.time_remaining.given
    /\ machine.time_remaining.minutes # 0
    /\ machine.start_time.kind = "utc"

\* C32: for a machine not in error, with a non-zero time_remaining and a
\* start_time, calculate_status returns 'in_use' when the whole minutes
\* elapsed exceed time_remaining and 'available' otherwise; ERROR gives
\* 'error', time_remaining 0 gives 'available'.
C32_StatusFromElapsedTime ==
    machine.result # "none" =>
        /\ Timed =>
               machine.result =
                   IF WholeMinutes > machine.time_remaining.minutes THEN "in_use"
                   ELSE "available"
        /\ machine.status = "ERROR" => machine.result = "error"
        /\ (machine.status # "ERROR" /\ machine.time_remaining = Remaining(TRUE, 0)) =>
               machine.result = "available"

(* One request per code, and the codes that failed transiently. *)

\* The location requests of the run under way for code c.
LocationRequests(c) == Cardinality({k \in DOMAIN requested : requested[k] = c})

\* C37: in one run at most one location request is issued for a code, also
\* when the code is more than once in the input list, in one batch or in
\* different batches.
C37_OneRequestPerCode ==
    Running => \A c \in Codes : LocationRequests(c) <= 1

\* pass_log is the log of the resolution pass of this run.
ResolutionLogged == InResolutionPass \/ (pc = "phase2_check" /\ flushed # "none")

\* The codes with a location request of this pass that failed and was not a
\* 404: a timeout, another status, an exception, a payload without ULN, a
\* failed write of the artifact.
FailedTransiently ==
    UNION {CodesWith(j, "skipped") \cup CodesWith(j, "partial") : j \in Completed}

\* C35: a code whose location request failed transiently is not requested
\* again in the same run and is polled in no cycle of that run.
C35_TransientWaitsForNextRun ==
    /\ ResolutionLogged =>
           \A c \in FailedTransiently :
               /\ LocationRequests(c) = 1
               /\ c \notin SeqToSet(new_locations)
               /\ pc = "phase2_check" => c \notin SeqToSet(existing_locations)
    /\ InPollingCycle =>
           /\ location_items = existing_locations
           /\ \A j \in DOMAIN pass_log :
                  SeqToSet(pass_log[j].requests) \subseteq SeqToSet(location_items)

(* An artifact without a ULN. *)

\* The codes polled by the cycle under way.
Polled == UNION {SeqToSet(pass_log[j].requests) : j \in DOMAIN pass_log}

\* No request for c, no poll of c, c not resolved, c not put into the
\* failure set by this run, and its artifact as it was.
LeftAlone(c) ==
    /\ LocationRequests(c) = 0
    /\ c \in failed_codes => c \in LoadedAtStartup
    /\ c \notin SeqToSet(existing_locations) \cup SeqToSet(new_locations)
    /\ c \notin SeqToSet(location_items)
    /\ InPollingCycle => c \notin Polled
    /\ location_file[c] \in {"nouln", "partial"}

\* C36 as stated: a code whose artifact file exists and holds no ULN (it
\* cannot be read, or has no location.uln) is in the resolution work-set,
\* and is neither requested nor put into the failure set nor polled.
C36_UnusableArtifactInWorkSet ==
    Running =>
        \A c \in startup.unusable :
            /\ c \in SeqToSet(codes_needing_location)
            /\ LeftAlone(c)

\* C36 as amended: such a code is neither requested nor put into the failure
\* set nor polled, in every run that finds the file so; it is in the
\* resolution work-set unless the failure set loaded at startup holds it.
C36_UnusableArtifactLeftAlone ==
    Running =>
        \A c \in startup.unusable :
            /\ c \in SeqToSet(codes_needing_location) <=> c \notin LoadedAtStartup
            /\ LeftAlone(c)

\* A polling cycle has ended in a run that found an artifact without ULN for
\* a code outside the failure set and had other codes to resolve.
C36_Witness ==
    /\ pc = "cycle_end"
    /\ requested # <<>>
    /\ \E c \in startup.unusable : c \notin LoadedAtStartup

(* The failure store across runs. *)

\* C38: after the flush at the end of a resolution pass the failure store
\* holds every key it held when the run started, whatever the load at
\* startup did.  The flush is one that succeeded.
C38_StoreKeepsItsKeys ==
    (AfterPass /\ flushed = "ok") =>
        /\ failed_file.ok
        /\ startup.store.codes \subseteq failed_file.codes

====
